---- MODULE Spec2Model ----
(***************************************************************************)
(* Lower-bounded flow feasibility solver (belts/main.py).                  *)
(*                                                                         *)
(* Quantities (lo, hi, caps, supply, residual capacities) are integers.    *)
(* Node names are sequences of tokens: the string "a__in" is the sequence  *)
(* <<"a", "__in">>, so that appending a split suffix and stripping it in   *)
(* base_name are the string operations of the source.                      *)
(***************************************************************************)
EXTENDS Integers, Sequences, FiniteSets, TLC

VARIABLES data, hashseed, pc, prob, base_nodes, g, level, it,
          cap_arc_handle, balance, edge_map, required, loop_i,
          flow, result, run, prev_result,
          added,      \* the add_edge calls made on the Dinic store so far
          phases,     \* the level phases of max_flow that reached the sink
          probe_log   \* the arcs the probes of the current level phase gave up

vars == <<data, hashseed, pc, prob, base_nodes, g, level, it,
          cap_arc_handle, balance, edge_map, required, loop_i,
          flow, result, run, prev_result, added, phases, probe_log>>

----------------------------------------------------------------------------
(* Bounds of the explored inputs *)

MaxEdges == 2

MaxCap == 1

\* the count of level phases is kept up to this number
MaxPhases == 15

MaxSupply == 2

----------------------------------------------------------------------------
(* Numeric helpers *)

\* The tolerance: parse_input_json's default 1e-9.  On integer quantities
\* x > 1e-9 is x > 0 and x >= -1e-9 is x >= 0, which is what EPS == 0 gives.
EPS == 0

\* INF of max_flow (1e100): larger than any capacity of the explored inputs.
INF == 1000000

Max(a, b) == IF a >= b THEN a ELSE b

Min(a, b) == IF a <= b THEN a ELSE b

RECURSIVE Gcd(_, _)
Gcd(a, b) == IF b = 0 THEN a ELSE Gcd(b, a % b)

\* Python's true division a / k of non-negative a by k >= 1, kept exact as a
\* reduced fraction <<numerator, denominator>>.
Div(a, k) == LET d == Gcd(a, k) IN <<a \div d, k \div d>>

\* A float that holds an integer value.
Num(a) == <<a, 1>>

RECURSIVE SumSeq(_)
SumSeq(s) == IF s = <<>> THEN 0 ELSE Head(s) + SumSeq(Tail(s))

----------------------------------------------------------------------------
(* Names and their string order *)

\* Code-point order of the tokens used in names ('_' sorts before letters).
TokRank(t) ==
    CASE t = "__in" -> 0
      [] t = "__out" -> 1
      [] t = "a" -> 2
      [] t = "b" -> 3
      [] t = "c" -> 4
      [] t = "e" -> 5
      [] t = "s" -> 6
      [] t = "sink" -> 7
      [] t = "t" -> 8

\* Python's str.__lt__ on names.
RECURSIVE NameLess(_, _)
NameLess(x, y) ==
    IF x = <<>> THEN y # <<>>
    ELSE IF y = <<>> THEN FALSE
    ELSE IF Head(x) = Head(y) THEN NameLess(Tail(x), Tail(y))
    ELSE TokRank(Head(x)) < TokRank(Head(y))

MinName(S) == CHOOSE x \in S : \A y \in S : y = x \/ NameLess(x, y)

MaxName(S) == CHOOSE x \in S : \A y \in S : y = x \/ NameLess(y, x)

\* Iteration order of a Python set of str: it depends on the process' hash
\* seed (PYTHONHASHSEED).  Two seeds are modelled, giving opposite orders.
RECURSIVE SetIter(_, _)
SetIter(S, seed) ==
    IF S = {} THEN <<>>
    ELSE LET x == IF seed = 0 THEN MinName(S) ELSE MaxName(S)
         IN <<x>> \o SetIter(S \ {x}, seed)

\* insertion of x into a sorted sequence of names
RECURSIVE InsertName(_, _)
InsertName(x, s) ==
    IF s = <<>> THEN <<x>>
    ELSE IF NameLess(x, Head(s)) THEN <<x>> \o s
    ELSE <<Head(s)>> \o InsertName(x, Tail(s))

\* sorted(iterable of names)
RECURSIVE SortedNames(_)
SortedNames(s) ==
    IF s = <<>> THEN <<>> ELSE InsertName(Head(s), SortedNames(Tail(s)))

Range(s) == {s[i] : i \in 1..Len(s)}

IndexOf(s, x) == CHOOSE i \in 1..Len(s) : s[i] = x

\* v + "__in", v + "__out"
InName(v) == Append(v, "__in")

OutName(v) == Append(v, "__out")

\* nm[:-4] / nm[:-5]
Front(nm) == SubSeq(nm, 1, Len(nm) - 1)

base_name(nm) ==
    IF nm # <<>> /\ nm[Len(nm)] = "__in" THEN Front(nm)
    ELSE IF nm # <<>> /\ nm[Len(nm)] = "__out" THEN Front(nm)
    ELSE nm

----------------------------------------------------------------------------
(* Input documents: the dict handed to solve_lower_bounded_flow *)

NodeS == <<"s">>

NodeA == <<"a">>

NodeT == <<"t">>

NodeAin == <<"a", "__in">>

Edge(u, v, lo, hi) == [from |-> u, to |-> v, lo |-> lo, hi |-> hi]

\* The edges an explored input may list: a path through a (which may carry a
\* cap), direct and parallel edges, a self-loop at the sink, edges at a node
\* whose own name ends in "__in", an edge leaving the sink, and an edge with
\* hi < lo.
Pool ==
    << Edge(NodeS, NodeA, 0, 2),
       Edge(NodeA, NodeT, 1, 2),
       Edge(NodeS, NodeT, 0, 1),
       Edge(NodeS, NodeT, 0, 0),
       Edge(NodeT, NodeT, 0, 1),
       Edge(NodeS, NodeAin, 0, 2),
       Edge(NodeAin, NodeA, 1, 1),
       Edge(NodeAin, NodeT, 0, 1),
       Edge(NodeT, NodeA, 1, 1),
       Edge(NodeA, NodeT, 1, 0) >>

RECURSIVE PickEdges(_, _)
PickEdges(I, descending) ==
    IF I = {} THEN <<>>
    ELSE LET i == IF descending
                  THEN CHOOSE x \in I : \A y \in I : y <= x
                  ELSE CHOOSE x \in I : \A y \in I : x <= y
         IN <<Pool[i]>> \o PickEdges(I \ {i}, descending)

EdgeLists ==
    { PickEdges(I, d) : I \in {J \in SUBSET (1..Len(Pool)) : Cardinality(J) <= MaxEdges},
                        d \in BOOLEAN }

EmptyMap == [x \in {} |-> 0]

\* node_caps: none, a cap on a (negative, zero or positive), or a negative
\* cap on the sink
CapMaps ==
    {EmptyMap, [x \in {NodeT} |-> -1]} \cup {[x \in {NodeA} |-> c] : c \in (-1)..MaxCap}

\* sources: exactly one entry (the source s, or the sink itself), none, or two
SourceMaps ==
    {[x \in {NodeS} |-> S] : S \in 0..MaxSupply}
        \cup {[x \in {NodeT} |-> 1], EmptyMap, [x \in {NodeS, NodeA} |-> 1]}

GenInputs ==
    { [nodes |-> {}, edges |-> es, node_caps |-> cm, sources |-> sm, sink |-> NodeT] :
        es \in EdgeLists, cm \in CapMaps, sm \in SourceMaps }

\* Scenario A, the infeasible_cut_example of tests/test_belts.py
ScenarioA ==
    [ nodes |-> {<<"s">>, <<"a">>, <<"b">>, <<"c">>, <<"sink">>},
      edges |-> << Edge(<<"s">>, <<"a">>, 0, 1500),
                   Edge(<<"a">>, <<"b">>, 0, 800),
                   Edge(<<"b">>, <<"sink">>, 200, 800),
                   Edge(<<"a">>, <<"c">>, 0, 500),
                   Edge(<<"c">>, <<"sink">>, 0, 500) >>,
      node_caps |-> (<<"a">> :> 1500) @@ (<<"b">> :> 800) @@ (<<"c">> :> 500),
      sources |-> (<<"s">> :> 1500),
      sink |-> <<"sink">> ]

\* a network with a dead end t -> e that two nodes of one level (b and s)
\* lead to, and the sink c next to them: of the supply of 2 only 1 can leave
DeadEndInput ==
    [ nodes |-> {},
      edges |-> << Edge(<<"a">>, <<"b">>, 0, 1),
                   Edge(<<"a">>, <<"c">>, 0, 1),
                   Edge(<<"a">>, <<"s">>, 0, 1),
                   Edge(<<"b">>, <<"t">>, 0, 1),
                   Edge(<<"s">>, <<"t">>, 0, 1),
                   Edge(<<"t">>, <<"e">>, 0, 1) >>,
      node_caps |-> EmptyMap,
      sources |-> (<<"a">> :> 2),
      sink |-> <<"c">> ]

\* two parallel edges s -> t that can both carry flow, and a supply that
\* either order of filling them can route
ParallelInput ==
    [ nodes |-> {},
      edges |-> << Edge(NodeS, NodeT, 0, 1), Edge(NodeS, NodeT, 0, 2) >>,
      node_caps |-> EmptyMap,
      sources |-> (NodeS :> 2),
      sink |-> NodeT ]

Inputs == GenInputs \cup {ScenarioA, DeadEndInput, ParallelInput}

Seeds == {0, 1}

----------------------------------------------------------------------------
(* parse_input_json *)

\* EdgeSpec for the i-th (0-based) input edge; the label defaults to "e<i>",
\* kept as the number i (fewer than ten edges, so labels order as numbers do)
EdgeSpec(e, i) == [u |-> e.from, v |-> e.to, lo |-> e.lo, hi |-> e.hi, name |-> i]

Without(f, K) == [k \in (DOMAIN f) \ K |-> f[k]]

\* a parse that keeps the caps declared on the sources and on the sink
ParseKeepingCaps(d) ==
    LET edges == [i \in 1..Len(d.edges) |-> EdgeSpec(d.edges[i], i - 1)]
        nodes == d.nodes \cup {edges[i].u : i \in 1..Len(edges)}
                         \cup {edges[i].v : i \in 1..Len(edges)}
                         \cup (DOMAIN d.sources) \cup {d.sink}
    IN [ nodes |-> nodes,
         edges |-> edges,
         node_caps |-> d.node_caps,
         sources |-> d.sources,
         sink |-> d.sink,
         eps |-> EPS ]

parse_input_json(d) ==
    LET edges == [i \in 1..Len(d.edges) |-> EdgeSpec(d.edges[i], i - 1)]
        nodes == d.nodes \cup {edges[i].u : i \in 1..Len(edges)}
                         \cup {edges[i].v : i \in 1..Len(edges)}
                         \cup (DOMAIN d.sources) \cup {d.sink}
    IN [ nodes |-> nodes,
         edges |-> edges,
         node_caps |-> Without(d.node_caps, (DOMAIN d.sources) \cup {d.sink}),
         sources |-> d.sources,
         sink |-> d.sink,
         eps |-> EPS ]

\* edge_sort_key(E1) < edge_sort_key(E2)
EdgeKeyLess(e1, e2) ==
    \/ NameLess(e1.u, e2.u)
    \/ e1.u = e2.u /\ NameLess(e1.v, e2.v)
    \/ e1.u = e2.u /\ e1.v = e2.v /\ e1.name < e2.name

RECURSIVE InsertEdge(_, _)
InsertEdge(x, sq) ==
    IF sq = <<>> THEN <<x>>
    ELSE IF EdgeKeyLess(x, Head(sq)) THEN <<x>> \o sq
    ELSE <<Head(sq)>> \o InsertEdge(x, Tail(sq))

\* the edges left in the order of the input
InputOrderEdges(sq) == sq

\* sorted(edges, key=edge_sort_key): stable
RECURSIVE SortedEdges(_)
SortedEdges(sq) ==
    IF sq = <<>> THEN <<>>
    ELSE InsertEdge(sq[Len(sq)], SortedEdges(SubSeq(sq, 1, Len(sq) - 1)))

----------------------------------------------------------------------------
(* Dinic: the residual graph store and the max-flow engine *)

\* g maps a node id to its arc list; arc indices are 0-based as in the source
ArcAt(G, v, i) == G[v][i + 1]

SetCap(G, v, i, c) == [G EXCEPT ![v][i + 1].cap = c]

\* Dinic.__init__: n empty arc lists
NewGraph(n) == [v \in 0..(n - 1) |-> <<>>]

Zeros(n) == [v \in 0..(n - 1) |-> 0]

\* the assertion of add_edge
CapAllowed(cap) == cap >= -EPS

\* an add_edge that gives the reverse arc the capacity of the forward arc
AddEdgeGraphSymmetric(G, fr, to, cap) ==
    LET fwd == [to |-> to, rev |-> Len(G[to]), cap |-> Max(0, cap)]
        rev == [to |-> fr, rev |-> Len(G[fr]), cap |-> Max(0, cap)]
        G1 == [G EXCEPT ![fr] = Append(@, fwd)]
    IN [G1 EXCEPT ![to] = Append(@, rev)]

\* Dinic.add_edge: the graph after the call
AddEdgeGraph(G, fr, to, cap) ==
    LET fwd == [to |-> to, rev |-> Len(G[to]), cap |-> Max(0, cap)]
        rev == [to |-> fr, rev |-> Len(G[fr]), cap |-> 0]
        G1 == [G EXCEPT ![fr] = Append(@, fwd)]
    IN [G1 EXCEPT ![to] = Append(@, rev)]

\* Dinic.add_edge: the handle it returns
AddEdgeHandle(G, fr, to, cap) ==
    <<fr, Len(AddEdgeGraph(G, fr, to, cap)[fr]) - 1>>

\* Dinic.add_edge(fr, to, cap) on graph G: the arguments of the call, the index
\* in g[fr] at which the forward arc is appended, and the handle returned
AddEdgeCall(G, fr, to, cap) ==
    [fr |-> fr, to |-> to, cap |-> cap, fwd |-> Len(G[fr]),
     handle |-> AddEdgeHandle(G, fr, to, cap)]

\* a scan that follows every arc, whatever its residual capacity
RECURSIVE BfsScanAnyArc(_, _, _, _, _)
BfsScanAnyArc(G, v, i, q, lvl) ==
    IF i >= Len(G[v]) THEN [q |-> q, lvl |-> lvl]
    ELSE LET e == ArcAt(G, v, i)
         IN IF lvl[e.to] < 0
            THEN BfsScanAnyArc(G, v, i + 1, Append(q, e.to),
                               [lvl EXCEPT ![e.to] = lvl[v] + 1])
            ELSE BfsScanAnyArc(G, v, i + 1, q, lvl)

\* Dinic._bfs: the scan of the arcs of v from index i on
RECURSIVE BfsScan(_, _, _, _, _)
BfsScan(G, v, i, q, lvl) ==
    IF i >= Len(G[v]) THEN [q |-> q, lvl |-> lvl]
    ELSE LET e == ArcAt(G, v, i)
         IN IF e.cap > EPS /\ lvl[e.to] < 0
            THEN BfsScan(G, v, i + 1, Append(q, e.to),
                         [lvl EXCEPT ![e.to] = lvl[v] + 1])
            ELSE BfsScan(G, v, i + 1, q, lvl)

RECURSIVE BfsLoop(_, _, _)
BfsLoop(G, q, lvl) ==
    IF q = <<>> THEN lvl
    ELSE LET r == BfsScan(G, Head(q), 0, Tail(q), lvl)
         IN BfsLoop(G, r.q, r.lvl)

\* a _bfs that labels the source and scans nothing
SourceLevelOnly(G, src) == [v \in DOMAIN G |-> IF v = src THEN 0 ELSE -1]

\* a _bfs that counts every hop twice
DoubledLevels(G, src) ==
    LET lvl == BfsLoop(G, <<src>>, [v \in DOMAIN G |-> IF v = src THEN 0 ELSE -1])
    IN [v \in DOMAIN G |-> IF lvl[v] < 0 THEN -1 ELSE 2 * lvl[v]]

\* Dinic._bfs: the levels it leaves in self.level
BfsLevels(G, src) ==
    BfsLoop(G, <<src>>, [v \in DOMAIN G |-> IF v = src THEN 0 ELSE -1])

\* the arc test of _dfs
Admissible(e, v, lvl) == e.cap > EPS /\ lvl[v] < lvl[e.to]

\* a push that lowers the arc and leaves its reverse arc alone
PushWithoutReverse(G, v, i, d) ==
    SetCap(G, v, i, ArcAt(G, v, i).cap - d)

\* _dfs: e.cap -= d; self.g[e.to][e.rev].cap += d
Push(G, v, i, d) ==
    LET e == ArcAt(G, v, i)
        G1 == SetCap(G, v, i, e.cap - d)
    IN SetCap(G1, e.to, e.rev, ArcAt(G1, e.to, e.rev).cap + d)

\* what the probes of one level phase found: dead holds the arcs <<v, i>>
\* whose probe returned no flow, skipped the arcs found not admissible, and
\* again_dead / again_skipped the arcs examined once more after that
NoProbes == [dead |-> {}, skipped |-> {}, again_dead |-> {}, again_skipped |-> {}]

\* _dfs looks at arc i of v
Examined(tr, v, i) ==
    [tr EXCEPT !.again_dead = IF <<v, i>> \in tr.dead THEN @ \cup {<<v, i>>} ELSE @,
               !.again_skipped = IF <<v, i>> \in tr.skipped THEN @ \cup {<<v, i>>} ELSE @]

\* Dinic._dfs(v, t, f) on graph G with cursors IT: the returned amount d and
\* the graph and cursors it leaves (tr is the log of the arcs given up)
RECURSIVE Dfs(_, _, _, _, _, _, _)
RECURSIVE DfsLoop(_, _, _, _, _, _, _, _)
Dfs(G, IT, lvl, v, tt, f, tr) ==
    IF v = tt THEN [d |-> f, g |-> G, it |-> IT, tr |-> tr]
    ELSE DfsLoop(G, IT, lvl, v, tt, f, IT[v], tr)

DfsLoop(G, IT, lvl, v, tt, f, i, tr) ==
    IF i >= Len(G[v]) THEN [d |-> 0, g |-> G, it |-> IT, tr |-> tr]
    ELSE LET IT1 == [IT EXCEPT ![v] = i]
             e == ArcAt(G, v, i)
             tr1 == Examined(tr, v, i)
         IN IF Admissible(e, v, lvl)
            THEN LET r == Dfs(G, IT1, lvl, e.to, tt, Min(f, e.cap), tr1)
                 IN IF r.d > EPS
                    THEN [d |-> r.d, g |-> Push(r.g, v, i, r.d), it |-> r.it,
                          tr |-> r.tr]
                    ELSE DfsLoop(r.g, r.it, lvl, v, tt, f, i + 1,
                                 [r.tr EXCEPT !.dead = @ \cup {<<v, i>>}])
            ELSE DfsLoop(G, IT1, lvl, v, tt, f, i + 1,
                         [tr1 EXCEPT !.skipped = @ \cup {<<v, i>>}])

\* Dinic.flow_used(fr, idx)
flow_used(G, fr, idx) ==
    LET fwd == ArcAt(G, fr, idx)
    IN ArcAt(G, fwd.to, fwd.rev).cap

RECURSIVE ReachScan(_, _, _, _, _)
ReachScan(G, v, i, q, seen) ==
    IF i >= Len(G[v]) THEN [q |-> q, seen |-> seen]
    ELSE LET e == ArcAt(G, v, i)
         IN IF e.cap > EPS /\ e.to \notin seen
            THEN ReachScan(G, v, i + 1, Append(q, e.to), seen \cup {e.to})
            ELSE ReachScan(G, v, i + 1, q, seen)

RECURSIVE ReachLoop(_, _, _)
ReachLoop(G, q, seen) ==
    IF q = <<>> THEN seen
    ELSE LET r == ReachScan(G, Head(q), 0, Tail(q), seen)
         IN ReachLoop(G, r.q, r.seen)

\* Dinic.residual_reachable_from
residual_reachable_from(G, src) == ReachLoop(G, <<src>>, {src})

----------------------------------------------------------------------------
(* LowerBoundFlowSolver: the transform *)

\* keys of a dict in insertion order (the explored dicts are written in
\* ascending key order)
DictKeys(f) == SetIter(DOMAIN f, 0)

_all_graph_nodes(P) ==
    SortedNames(SetIter(P.nodes \cup {InName(v) : v \in DOMAIN P.node_caps}
                                \cup {OutName(v) : v \in DOMAIN P.node_caps},
                        hashseed))

_to_final_name(P, x, as_src) ==
    IF x \in DOMAIN P.node_caps
    THEN (IF as_src THEN OutName(x) ELSE InName(x))
    ELSE x

\* self.name2id[name]
name2id(base, name) == IndexOf(base, name) - 1

\* self.id2name.get(vid, "")
id2name(base, vid) ==
    IF vid < Len(base) THEN base[vid + 1]
    ELSE IF vid = Len(base) THEN <<"SS">>
    ELSE <<"TT">>

SSof(base) == Len(base)

TTof(base) == Len(base) + 1

\* sorted(self.P.node_caps.items()): the capped names in ascending order
SortedCaps(P) == SortedNames(DictKeys(P.node_caps))

\* capacity of the arc of an original edge
EdgeCap(lo, hi) == Max(0, hi - lo)

\* the assertion on an original edge
BoundsAllowed(lo, hi) == hi + EPS >= lo

\* the loop that hooks SS/TT to the balances, from node id i on:
\* the graph and the required total it leaves
RECURSIVE HookLoop(_, _, _, _, _)
HookLoop(G, bal, base, i, req) ==
    IF i >= Len(base) THEN [g |-> G, required |-> req]
    ELSE IF bal[i] > EPS
         THEN HookLoop(AddEdgeGraph(G, SSof(base), i, bal[i]), bal, base,
                       i + 1, req + bal[i])
    ELSE IF bal[i] < -EPS
         THEN HookLoop(AddEdgeGraph(G, i, TTof(base), -bal[i]), bal, base,
                       i + 1, req)
    ELSE HookLoop(G, bal, base, i + 1, req)

\* the add_edge calls of the SS/TT loop, from node id i on
RECURSIVE HookCalls(_, _, _, _)
HookCalls(G, bal, base, i) ==
    IF i >= Len(base) THEN <<>>
    ELSE IF bal[i] > EPS
         THEN <<AddEdgeCall(G, SSof(base), i, bal[i])>>
                 \o HookCalls(AddEdgeGraph(G, SSof(base), i, bal[i]), bal, base, i + 1)
    ELSE IF bal[i] < -EPS
         THEN <<AddEdgeCall(G, i, TTof(base), -bal[i])>>
                 \o HookCalls(AddEdgeGraph(G, i, TTof(base), -bal[i]), bal, base, i + 1)
    ELSE HookCalls(G, bal, base, i + 1)

----------------------------------------------------------------------------
(* LowerBoundFlowSolver: the outputs *)

\* the clamp of _success_output
ClampFlow(lo, hi, f) == Max(lo, Min(hi + EPS, f))

\* flow reported for one edge_map entry
ReportedFlow(G, meta) ==
    ClampFlow(meta.lo, meta.hi,
              meta.lo + flow_used(G, meta.handle[1], meta.handle[2]))

FlowsOut(G, emap) ==
    [i \in 1..Len(emap) |->
        [from |-> emap[i].orig_u, to |-> emap[i].orig_v,
         flow |-> ReportedFlow(G, emap[i])]]

\* sum of the flows of the entries whose "to" is the sink
SinkTotal(flows, sink) ==
    SumSeq([i \in 1..Len(flows) |->
               IF flows[i].to = sink THEN flows[i].flow ELSE 0])

_success_output(G, emap, P) ==
    LET flows_out == FlowsOut(G, emap)
    IN [ status |-> "ok",
         max_flow_per_min |-> SinkTotal(flows_out, P.sink),
         flows |-> flows_out ]

\* cut_nodes: the coalesced names of the reachable ids
CutNodes(R, base) ==
    { base_name(id2name(base, vid)) :
        vid \in {x \in R : id2name(base, x) \notin {<<"SS">>, <<"TT">>}} }

\* list(cut_nodes): the set in its iteration order
CutReachableUnsorted(R, base) == SetIter(CutNodes(R, base), hashseed)

\* sorted(cut_nodes)
CutReachable(R, base) == SortedNames(SetIter(CutNodes(R, base), hashseed))

\* a tight-edge test that forgets the cut
EdgeIsSaturated(G, R, meta) ==
    ArcAt(G, meta.handle[1], meta.handle[2]).cap <= EPS

\* the test of one edge_map entry in the tight-edge loop
EdgeIsTight(G, R, meta) ==
    /\ meta.u_final \in R
    /\ meta.v_final \notin R
    /\ ArcAt(G, meta.handle[1], meta.handle[2]).cap <= EPS

\* the tight-edge loop from entry i on: entries appended, seen_pairs kept
RECURSIVE TightEdgesLoop(_, _, _, _, _, _)
TightEdgesLoop(G, R, emap, i, seen_pairs, acc) ==
    IF i > Len(emap) THEN acc
    ELSE LET meta == emap[i]
             key == <<meta.orig_u, meta.orig_v>>
         IN IF EdgeIsTight(G, R, meta) /\ key \notin seen_pairs
            THEN TightEdgesLoop(G, R, emap, i + 1, seen_pairs \cup {key},
                    Append(acc, [from |-> meta.orig_u, to |-> meta.orig_v,
                                 flow_needed |-> Num(0)]))
            ELSE TightEdgesLoop(G, R, emap, i + 1, seen_pairs, acc)

\* the test of one capacity arc in the tight-node loop
NodeIsTight(G, R, h) ==
    /\ h[1] \in R
    /\ ArcAt(G, h[1], h[2]).to \notin R
    /\ ArcAt(G, h[1], h[2]).cap <= EPS

TightNodes(G, R, handles) ==
    SortedNames(SetIter({v \in DOMAIN handles : NodeIsTight(G, R, handles[v])}, 0))

\* a deficit that forgets what was pushed
DeficitOfRequired(req, total) == Max(0, req)

Deficit(req, total) == Max(0, req - total)

\* flow_needed of every tight edge, given the deficit and the k entries
Share(deficit, k) ==
    IF k >= 1 /\ deficit > EPS THEN Div(deficit, k) ELSE Num(0)

_infeasible_certificate(G, emap, handles, base, req, total) ==
    LET R == residual_reachable_from(G, SSof(base))
        tight == TightEdgesLoop(G, R, emap, 1, {}, <<>>)
        deficit == Deficit(req, total)
        share == Share(deficit, Len(tight))
    IN [ status |-> "infeasible",
         cut_reachable |-> CutReachable(R, base),
         demand_balance |-> deficit,
         tight_nodes |-> TightNodes(G, R, handles),
         tight_edges |-> [i \in 1..Len(tight) |->
                             [tight[i] EXCEPT !.flow_needed = share]] ]

\* the test of solve: pushed + 1e-12 >= required - EPS
Feasible(pushed, req) == pushed >= req - EPS

----------------------------------------------------------------------------
(* The state machine: one call of solve_lower_bounded_flow *)

None == <<>>

Raised(msg) == [status |-> "error", msg |-> msg]

NoResult == [status |-> "none"]

FreshSolver ==
    /\ pc = "start"
    /\ prob = None
    /\ base_nodes = None
    /\ g = None
    /\ level = None
    /\ it = None
    /\ cap_arc_handle = None
    /\ balance = None
    /\ edge_map = None
    /\ required = 0
    /\ loop_i = 0
    /\ flow = 0
    /\ result = NoResult
    /\ added = None
    /\ phases = 0
    /\ probe_log = NoProbes

Init ==
    /\ data \in Inputs
    /\ hashseed = 0
    /\ run = 1
    /\ prev_result = NoResult
    /\ FreshSolver

\* prob = parse_input_json(input_json); solver = LowerBoundFlowSolver(prob)
Parse ==
    /\ pc = "start"
    /\ prob' = parse_input_json(data)
    /\ edge_map' = <<>>
    /\ pc' = "build"
    /\ UNCHANGED <<data, hashseed, added, phases, probe_log, base_nodes, g, level, it, cap_arc_handle,
                   balance, required, loop_i, flow, result, run, prev_result>>

\* build_transformed up to the node-cap loop: ids, the Dinic store, SS and TT
BuildInit ==
    /\ pc = "build"
    /\ LET base == _all_graph_nodes(prob)
       IN /\ base_nodes' = base
          /\ g' = NewGraph(Len(base) + 2)
          /\ level' = Zeros(Len(base) + 2)
          /\ it' = Zeros(Len(base) + 2)
    /\ cap_arc_handle' = EmptyMap
    /\ added' = <<>>
    /\ loop_i' = 0
    /\ pc' = "cap_arcs"
    /\ UNCHANGED <<data, hashseed, phases, probe_log, prob, balance, edge_map, required, flow,
                   result, run, prev_result>>

\* one iteration of the node-cap loop: add_edge(v__in, v__out, cap)
AddCapArc ==
    /\ pc = "cap_arcs"
    /\ loop_i < Len(SortedCaps(prob))
    /\ LET v == SortedCaps(prob)[loop_i + 1]
           cap == prob.node_caps[v]
           fr == name2id(base_nodes, InName(v))
           to == name2id(base_nodes, OutName(v))
       IN IF CapAllowed(cap)
          THEN /\ g' = AddEdgeGraph(g, fr, to, cap)
               /\ cap_arc_handle' = (v :> AddEdgeHandle(g, fr, to, cap)) @@ cap_arc_handle
               /\ added' = Append(added, AddEdgeCall(g, fr, to, cap))
               /\ loop_i' = loop_i + 1
               /\ UNCHANGED <<pc, result>>
          ELSE /\ pc' = "error"
               /\ result' = Raised("Negative capacity not allowed")
               /\ UNCHANGED <<g, cap_arc_handle, loop_i, added>>
    /\ UNCHANGED <<data, hashseed, phases, probe_log, prob, base_nodes, level, it, balance,
                   edge_map, required, flow, run, prev_result>>

\* after the node-cap loop: the balances and the edge map are reset
InitBalances ==
    /\ pc = "cap_arcs"
    /\ loop_i = Len(SortedCaps(prob))
    /\ balance' = [i \in 0..(Len(base_nodes) - 1) |-> 0]
    /\ edge_map' = <<>>
    /\ loop_i' = 0
    /\ pc' = "edges"
    /\ UNCHANGED <<data, hashseed, added, phases, probe_log, prob, base_nodes, g, level, it,
                   cap_arc_handle, required, flow, result, run, prev_result>>

\* one iteration of the loop over the sorted original edges
AddOrigEdge ==
    /\ pc = "edges"
    /\ loop_i < Len(prob.edges)
    /\ LET e == SortedEdges(prob.edges)[loop_i + 1]
           u_id == name2id(base_nodes, _to_final_name(prob, e.u, TRUE))
           v_id == name2id(base_nodes, _to_final_name(prob, e.v, FALSE))
           cap == EdgeCap(e.lo, e.hi)
       IN IF BoundsAllowed(e.lo, e.hi)
          THEN /\ g' = AddEdgeGraph(g, u_id, v_id, cap)
               /\ edge_map' = Append(edge_map,
                     [orig_u |-> e.u, orig_v |-> e.v, u_final |-> u_id,
                      v_final |-> v_id, lo |-> e.lo, hi |-> e.hi,
                      name |-> e.name,
                      handle |-> AddEdgeHandle(g, u_id, v_id, cap)])
               /\ balance' = [[balance EXCEPT ![u_id] = @ - e.lo]
                                       EXCEPT ![v_id] = @ + e.lo]
               /\ added' = Append(added, AddEdgeCall(g, u_id, v_id, cap))
               /\ loop_i' = loop_i + 1
               /\ UNCHANGED <<pc, result>>
          ELSE /\ pc' = "error"
               /\ result' = Raised("Edge has hi < lo")
               /\ UNCHANGED <<g, edge_map, balance, loop_i, added>>
    /\ UNCHANGED <<data, hashseed, phases, probe_log, prob, base_nodes, level, it,
                   cap_arc_handle, required, flow, run, prev_result>>

\* the single-source assertion and the circulation trick
FoldSource ==
    /\ pc = "edges"
    /\ loop_i = Len(prob.edges)
    /\ IF Cardinality(DOMAIN prob.sources) = 1
       THEN LET src_name == CHOOSE x \in DOMAIN prob.sources : TRUE
                S_total == prob.sources[src_name]
                src_id == name2id(base_nodes, _to_final_name(prob, src_name, TRUE))
                sink_id == name2id(base_nodes, _to_final_name(prob, prob.sink, FALSE))
            IN /\ balance' = [[balance EXCEPT ![sink_id] = @ - S_total]
                                       EXCEPT ![src_id] = @ + S_total]
               /\ pc' = "hook"
               /\ UNCHANGED result
       ELSE /\ pc' = "error"
            /\ result' = Raised("This solver expects exactly one source.")
            /\ UNCHANGED balance
    /\ UNCHANGED <<data, hashseed, added, phases, probe_log, prob, base_nodes, g, level, it,
                   cap_arc_handle, edge_map, required, loop_i, flow, run,
                   prev_result>>

\* the SS/TT loop; then solve calls max_flow, which starts with flow = 0
HookBalances ==
    /\ pc = "hook"
    /\ LET r == HookLoop(g, balance, base_nodes, 0, 0)
       IN /\ g' = r.g
          /\ required' = r.required
    /\ added' = added \o HookCalls(g, balance, base_nodes, 0)
    /\ flow' = 0
    /\ phases' = 0
    /\ pc' = "bfs"
    /\ UNCHANGED <<data, hashseed, probe_log, prob, base_nodes, level, it,
                   cap_arc_handle, balance, edge_map, loop_i, result, run,
                   prev_result>>

\* max_flow: one evaluation of the while condition self._bfs(s, t); when it
\* holds the cursors are reset, otherwise max_flow returns flow
LevelPhase ==
    /\ pc = "bfs"
    /\ LET lvl == BfsLevels(g, SSof(base_nodes))
       IN /\ level' = lvl
          /\ IF lvl[TTof(base_nodes)] >= 0
             THEN /\ it' = Zeros(Len(base_nodes) + 2)
                  /\ phases' = Min(phases + 1, MaxPhases)
                  /\ probe_log' = NoProbes
                  /\ pc' = "dfs"
             ELSE /\ pc' = "decide"
                  /\ UNCHANGED <<it, phases, probe_log>>
    /\ UNCHANGED <<data, hashseed, added, prob, base_nodes, g, cap_arc_handle,
                   balance, edge_map, required, loop_i, flow, result, run,
                   prev_result>>

\* max_flow: one probe f = self._dfs(s, t, INF) of the inner loop
Probe ==
    /\ pc = "dfs"
    /\ LET r == Dfs(g, it, level, SSof(base_nodes), TTof(base_nodes), INF,
                     probe_log)
       IN /\ g' = r.g
          /\ it' = r.it
          /\ probe_log' = r.tr
          /\ IF r.d <= EPS
             THEN pc' = "bfs" /\ UNCHANGED flow
             ELSE flow' = flow + r.d /\ UNCHANGED pc
    /\ UNCHANGED <<data, hashseed, added, phases, prob, base_nodes, level, cap_arc_handle,
                   balance, edge_map, required, loop_i, result, run,
                   prev_result>>

\* solve: the feasible branch
Success ==
    /\ pc = "decide"
    /\ Feasible(flow, required)
    /\ result' = _success_output(g, edge_map, prob)
    /\ pc' = "done"
    /\ UNCHANGED <<data, hashseed, added, phases, probe_log, prob, base_nodes, g, level, it,
                   cap_arc_handle, balance, edge_map, required, loop_i, flow,
                   run, prev_result>>

\* solve: the infeasible branch
Infeasible ==
    /\ pc = "decide"
    /\ ~Feasible(flow, required)
    /\ result' = _infeasible_certificate(g, edge_map, cap_arc_handle,
                                         base_nodes, required, flow)
    /\ pc' = "done"
    /\ UNCHANGED <<data, hashseed, added, phases, probe_log, prob, base_nodes, g, level, it,
                   cap_arc_handle, balance, edge_map, required, loop_i, flow,
                   run, prev_result>>

Next ==
    \/ Parse
    \/ BuildInit
    \/ AddCapArc
    \/ InitBalances
    \/ AddOrigEdge
    \/ FoldSource
    \/ HookBalances
    \/ LevelPhase
    \/ Probe
    \/ Success
    \/ Infeasible

Spec == Init /\ [][Next]_vars

\* a second call on the same input, in a fresh process (with any hash seed) and
\* on a fresh solver instance
Rerun ==
    /\ pc \in {"done", "error"}
    /\ run = 1
    /\ run' = 2
    /\ prev_result' = result
    /\ hashseed' \in Seeds
    /\ pc' = "start"
    /\ prob' = None
    /\ base_nodes' = None
    /\ g' = None
    /\ level' = None
    /\ it' = None
    /\ cap_arc_handle' = None
    /\ balance' = None
    /\ edge_map' = None
    /\ required' = 0
    /\ loop_i' = 0
    /\ flow' = 0
    /\ result' = NoResult
    /\ added' = None
    /\ phases' = 0
    /\ probe_log' = NoProbes
    /\ UNCHANGED data

NextTwice == Next \/ Rerun

SpecTwice == Init /\ [][NextTwice]_vars

\* the input document without the node_caps entries of its sources and sink
WithoutEndCaps(d) ==
    [d EXCEPT !.node_caps = Without(d.node_caps, (DOMAIN d.sources) \cup {d.sink})]

\* a second call, on the input of the first with the caps on its sources and
\* sink removed (and on a fresh solver instance)
RerunWithoutEndCaps ==
    /\ pc \in {"done", "error"}
    /\ run = 1
    /\ WithoutEndCaps(data) # data
    /\ data' = WithoutEndCaps(data)
    /\ run' = 3
    /\ prev_result' = result
    /\ pc' = "start"
    /\ prob' = None
    /\ base_nodes' = None
    /\ g' = None
    /\ level' = None
    /\ it' = None
    /\ cap_arc_handle' = None
    /\ balance' = None
    /\ edge_map' = None
    /\ required' = 0
    /\ loop_i' = 0
    /\ flow' = 0
    /\ result' = NoResult
    /\ added' = None
    /\ phases' = 0
    /\ probe_log' = NoProbes
    /\ UNCHANGED hashseed

NextStripped == Next \/ RerunWithoutEndCaps

SpecStripped == Init /\ [][NextStripped]_vars

\* the list sq back to front
ReverseSeq(sq) == [i \in 1..Len(sq) |-> sq[Len(sq) + 1 - i]]

\* a second call, on the input of the first with its edges listed in the
\* opposite order (labels omitted, so each edge is labelled by its new place)
RerunReversed ==
    /\ pc \in {"done", "error"}
    /\ run = 1
    /\ Len(data.edges) >= 2
    /\ data' = [data EXCEPT !.edges = ReverseSeq(data.edges)]
    /\ run' = 4
    /\ prev_result' = result
    /\ pc' = "start"
    /\ prob' = None
    /\ base_nodes' = None
    /\ g' = None
    /\ level' = None
    /\ it' = None
    /\ cap_arc_handle' = None
    /\ balance' = None
    /\ edge_map' = None
    /\ required' = 0
    /\ loop_i' = 0
    /\ flow' = 0
    /\ result' = NoResult
    /\ added' = None
    /\ phases' = 0
    /\ probe_log' = NoProbes
    /\ UNCHANGED hashseed

NextReversed == Next \/ RerunReversed

SpecReversed == Init /\ [][NextReversed]_vars

----------------------------------------------------------------------------
(* The original problem, as the claims state it *)

Finished == pc \in {"done", "error"}

Returned(status) == pc = "done" /\ result.status = status

SourceName(P) == CHOOSE x \in DOMAIN P.sources : TRUE

\* total flow on the listed edges that enter v / leave v
InSum(flows, v) ==
    SumSeq([i \in 1..Len(flows) |-> IF flows[i].to = v THEN flows[i].flow ELSE 0])

OutSum(flows, v) ==
    SumSeq([i \in 1..Len(flows) |-> IF flows[i].from = v THEN flows[i].flow ELSE 0])

\* one source, S >= 0, 0 <= lo <= hi on every edge, no negative cap
WellFormed(P) ==
    /\ Cardinality(DOMAIN P.sources) = 1
    /\ \A x \in DOMAIN P.sources : P.sources[x] >= 0
    /\ \A i \in 1..Len(P.edges) : 0 <= P.edges[i].lo /\ P.edges[i].lo <= P.edges[i].hi
    /\ \A v \in DOMAIN P.node_caps : P.node_caps[v] >= 0

\* the assignment f (edge index -> flow) written as a flow list
AsFlows(P, f) ==
    [i \in 1..Len(P.edges) |-> [from |-> P.edges[i].u, to |-> P.edges[i].v, flow |-> f[i]]]

\* f is a feasible assignment of the original problem
FeasibleAssignment(P, f) ==
    LET fl == AsFlows(P, f)
        src == SourceName(P)
        S == P.sources[src]
    IN /\ \A i \in 1..Len(P.edges) : P.edges[i].lo <= f[i] /\ f[i] <= P.edges[i].hi
       /\ \A v \in DOMAIN P.node_caps : InSum(fl, v) <= P.node_caps[v]
       /\ \A v \in P.nodes \ {src, P.sink} : InSum(fl, v) = OutSum(fl, v)
       /\ OutSum(fl, src) - InSum(fl, src) = S
       /\ InSum(fl, P.sink) - OutSum(fl, P.sink) = S

MaxHiOf(P) == LET H == {P.edges[i].hi : i \in 1..Len(P.edges)} \cup {0}
              IN CHOOSE h \in H : \A k \in H : k <= h

HasFeasibleAssignment(P) ==
    \E f \in [1..Len(P.edges) -> 0..MaxHiOf(P)] : FeasibleAssignment(P, f)

----------------------------------------------------------------------------
(* Claims *)

\* C1: for a well-formed Problem (one source, S >= 0, 0 <= lo <= hi, caps
\* >= 0) the solver returns "ok" exactly when the original problem has a
\* feasible assignment, and "infeasible" otherwise.  (Checked on the generated
\* inputs; Scenario A's ranges are too wide to enumerate assignments.)
C1_OkIffFeasible ==
    (Finished /\ data \in GenInputs /\ WellFormed(prob)) =>
        /\ pc = "done"
        /\ result.status \in {"ok", "infeasible"}
        /\ (result.status = "ok") <=> HasFeasibleAssignment(prob)

\* C2: in every "ok" result the reported flows are conserved at every node
\* other than the source and the sink.
C2_Conservation ==
    Returned("ok") =>
        \A v \in prob.nodes \ {SourceName(prob), prob.sink} :
            InSum(result.flows, v) = OutSum(result.flows, v)

\* C3: in every "ok" result the reported flow entering a capped node is at
\* most its cap (within eps).
C3_NodeCapRespected ==
    Returned("ok") =>
        \A v \in DOMAIN prob.node_caps :
            InSum(result.flows, v) <= prob.node_caps[v] + EPS

\* C4: in every "ok" result the flow reported for each original edge is
\* lo + flow_used(handle of its arc), it lies in [lo - eps, hi + eps], and the
\* list has the entry's endpoints.
C4_ReportedFlowInBounds ==
    Returned("ok") =>
        /\ Len(result.flows) = Len(edge_map)
        /\ \A i \in 1..Len(edge_map) :
              LET meta == edge_map[i]
                  r == result.flows[i]
              IN /\ r.from = meta.orig_u /\ r.to = meta.orig_v
                 /\ r.flow = meta.lo + flow_used(g, meta.handle[1], meta.handle[2])
                 /\ meta.lo - EPS <= r.flow /\ r.flow <= meta.hi + EPS

\* C4 case: an "ok" result with an edge that has a positive lower bound and
\* carries more than it
C4_Witness ==
    /\ Returned("ok")
    /\ \E i \in 1..Len(edge_map) :
          edge_map[i].lo > 0 /\ result.flows[i].flow > edge_map[i].lo

\* C5: in every "ok" result max_flow_per_min is the sum of the reported flows
\* on the edges into the sink and equals the supply of the source.
C5_ThroughputEqualsSupply ==
    Returned("ok") =>
        /\ result.max_flow_per_min = InSum(result.flows, prob.sink)
        /\ result.max_flow_per_min = prob.sources[SourceName(prob)]

\* C6: in every "infeasible" result each reported tight edge is saturated on
\* its arc and straddles the reported cut (from in cut_reachable, to not in
\* it), and each reported tight node has a saturated capacity arc whose
\* in-node is reachable from SS and whose out-node is not.
C6_TightStraddlesCut ==
    Returned("infeasible") =>
        LET R == residual_reachable_from(g, SSof(base_nodes))
            cut == Range(result.cut_reachable)
        IN /\ \A i \in 1..Len(result.tight_edges) :
                 LET te == result.tight_edges[i]
                 IN /\ \E j \in 1..Len(edge_map) :
                          /\ edge_map[j].orig_u = te.from
                          /\ edge_map[j].orig_v = te.to
                          /\ ArcAt(g, edge_map[j].handle[1], edge_map[j].handle[2]).cap <= EPS
                    /\ te.from \in cut
                    /\ te.to \notin cut
           /\ \A i \in 1..Len(result.tight_nodes) :
                 LET v == result.tight_nodes[i]
                     h == cap_arc_handle[v]
                 IN /\ ArcAt(g, h[1], h[2]).cap <= EPS
                    /\ name2id(base_nodes, InName(v)) \in R
                    /\ name2id(base_nodes, OutName(v)) \notin R

\* exact equality of two fractions
SameNumber(x, y) == x[1] * y[2] = y[1] * x[2]

\* C7: in every "infeasible" result demand_balance is max(0, required -
\* max_flow); with k >= 1 tight edges each has flow_needed = demand_balance / k
\* and the shares add up to demand_balance, whatever the tight nodes are.
C7_EqualShares ==
    Returned("infeasible") =>
        LET k == Len(result.tight_edges)
        IN /\ result.demand_balance = Max(0, required - flow)
           /\ \A i \in 1..k :
                 /\ SameNumber(result.tight_edges[i].flow_needed,
                               <<result.demand_balance, k>>)
                 /\ SameNumber(<<k * result.tight_edges[i].flow_needed[1],
                                 result.tight_edges[i].flow_needed[2]>>,
                               Num(result.demand_balance))

\* C7 case: an "infeasible" result that splits a positive deficit over two or
\* more tight edges
C7_Witness ==
    /\ Returned("infeasible")
    /\ Len(result.tight_edges) >= 2
    /\ result.demand_balance > 0
    /\ flow > 0

\* hi < lo on an edge, a negative cap, or not exactly one source
Malformed(d) ==
    \/ \E i \in 1..Len(d.edges) : d.edges[i].hi < d.edges[i].lo
    \/ \E v \in DOMAIN d.node_caps : d.node_caps[v] < 0
    \/ Cardinality(DOMAIN d.sources) # 1

\* C8: on malformed input solving ends in a validation error, raised before
\* any node or arc has been added to the residual graph, and in no result.
C8_FailsBeforeConstruction ==
    (Finished /\ Malformed(data)) =>
        /\ pc = "error"
        /\ result.status = "error"
        /\ DOMAIN g = {}

\* C9: a second run on the same input, on a fresh solver and under any hash
\* seed, ends exactly as the first: same result, list orders and values
\* included, or the same error.
C9_Deterministic ==
    (run = 2 /\ Finished) => result = prev_result

\* C9 case: a second run under the other hash seed that ends in a
\* certificate listing two or more names
C9_Witness ==
    /\ run = 2
    /\ hashseed = 1
    /\ Returned("infeasible")
    /\ Len(result.cut_reachable) >= 2
    /\ prev_result.status = "infeasible"

\* the expected output of infeasible_cut_example
ExpectedA ==
    [ status |-> "infeasible",
      cut_reachable |-> << <<"a">>, <<"s">> >>,
      demand_balance |-> 200,
      tight_nodes |-> <<>>,
      tight_edges |-> << [from |-> <<"a">>, to |-> <<"b">>, flow_needed |-> Num(100)],
                         [from |-> <<"a">>, to |-> <<"c">>, flow_needed |-> Num(100)] >> ]

\* C10: on Scenario A the solver returns "infeasible" with cut_reachable
\* ["a", "s"], demand_balance 200, no tight node and the tight edges a->b and
\* a->c, in that order, each needing 100.
C10_ScenarioA ==
    (data = ScenarioA /\ Finished) => (pc = "done" /\ result = ExpectedA)

\* C10 case: the run on Scenario A has returned
C10_Witness == data = ScenarioA /\ pc = "done" /\ flow = 1300

\* C11: in every "ok" result the flows list has exactly one entry per input
\* edge (parallel edges included) and the entries are in ascending order of
\* (from, to, label), whatever the order of the edges in the input.
C11_OneEntryPerEdgeSorted ==
    Returned("ok") =>
        /\ Len(result.flows) = Len(data.edges)
        /\ Len(edge_map) = Len(data.edges)
        /\ {edge_map[i].name : i \in 1..Len(edge_map)} = 0..(Len(data.edges) - 1)
        /\ \A i \in 1..Len(edge_map) :
              /\ result.flows[i].from = data.edges[edge_map[i].name + 1].from
              /\ result.flows[i].to = data.edges[edge_map[i].name + 1].to
        /\ \A i, j \in 1..Len(edge_map) :
              i < j =>
                 EdgeKeyLess([u |-> result.flows[i].from, v |-> result.flows[i].to,
                              name |-> edge_map[i].name],
                             [u |-> result.flows[j].from, v |-> result.flows[j].to,
                              name |-> edge_map[j].name])

\* C11 case: an "ok" result whose entries are not in the order of the input
C11_Witness ==
    /\ Returned("ok")
    /\ \E i, j \in 1..Len(edge_map) : i < j /\ edge_map[i].name > edge_map[j].name

\* C12: caps declared on the source or on the sink are ignored: the call
\* ends as the call on the input without those node_caps entries does (same
\* result or same error), and neither node is split: it has no capacity arc
\* and the arcs of its edges are attached to the node itself.
C12_EndCapsIgnored ==
    /\ (run = 3 /\ Finished) => result = prev_result
    /\ (pc \in {"edges", "hook", "bfs", "dfs", "decide", "done"}) =>
          \A x \in (DOMAIN data.sources) \cup {data.sink} :
             /\ x \notin DOMAIN prob.node_caps
             /\ x \notin DOMAIN cap_arc_handle
             /\ \A i \in 1..Len(edge_map) :
                   /\ edge_map[i].orig_u = x =>
                         edge_map[i].u_final = name2id(base_nodes, x)
                   /\ edge_map[i].orig_v = x =>
                         edge_map[i].v_final = name2id(base_nodes, x)

\* C12 case: the call on an input with a cap on its sink returned "ok" with a
\* positive throughput, and the call without that cap has returned too
C12_Witness ==
    /\ run = 3
    /\ Returned("ok")
    /\ prev_result.status = "ok"
    /\ prev_result.max_flow_per_min > 0
    /\ Len(edge_map) = 2

\* C13: for every arc created by add_edge(fr, to, cap), fr = to included, in
\* every state during and after max_flow the residual capacity of the arc and
\* of its reverse arc are >= 0 and their sum is max(0, cap).
C13_ArcPairing ==
    (pc \in {"bfs", "dfs", "decide", "done"}) =>
        \A k \in 1..Len(added) :
            LET arc == ArcAt(g, added[k].fr, added[k].fwd)
                reverse == ArcAt(g, arc.to, arc.rev)
            IN /\ arc.cap >= 0
               /\ reverse.cap >= 0
               /\ arc.cap + reverse.cap = Max(0, added[k].cap)

\* C14: for every handle returned by add_edge, at any later point (after
\* further add_edge calls, during and after max_flow), flow_used(handle) is
\* the amount pushed through the arc: its original capacity minus its current
\* residual capacity, hence 0 while nothing has been pushed through it.
C14_FlowUsedIsPushed ==
    (pc \in {"cap_arcs", "edges", "hook", "bfs", "dfs", "decide", "done"}) =>
        \A k \in 1..Len(added) :
            LET arc == ArcAt(g, added[k].fr, added[k].fwd)
                pushed == Max(0, added[k].cap) - arc.cap
            IN /\ flow_used(g, added[k].handle[1], added[k].handle[2]) = pushed
               /\ (pc \in {"cap_arcs", "edges", "hook", "bfs"} /\ flow = 0) =>
                     flow_used(g, added[k].handle[1], added[k].handle[2]) = 0

\* C15: max_flow terminates.  As the claim argues it: the level of the sink
\* strictly increases from each level phase that reaches it to the next, the
\* number of such phases is at most the number of nodes, every push is > eps
\* (and the flow never exceeds the capacity out of SS), and every step of
\* max_flow either pushes or moves on to the next phase or to the return: no
\* run stays in max_flow for ever.
C15_MaxFlowTerminates ==
    /\ [][(pc = "bfs" /\ pc' = "dfs" /\ phases >= 1) =>
             level'[TTof(base_nodes)] > level[TTof(base_nodes)]]_vars
    /\ [](pc \in {"bfs", "dfs", "decide"} =>
             /\ phases <= Len(base_nodes) + 2
             /\ flow <= required)
    /\ [][(pc = "dfs" /\ flow' # flow) => flow' - flow > EPS]_vars
    /\ [][(pc \in {"bfs", "dfs"}) =>
             \/ flow' > flow
             \/ pc = "dfs" /\ pc' = "bfs"
             \/ pc = "bfs" /\ pc' = "dfs" /\ phases' = phases + 1
             \/ pc = "bfs" /\ pc' = "decide"]_vars

\* C15 case: max_flow has returned after two level phases that reached the
\* sink
C15_Witness == pc = "decide" /\ phases >= 2 /\ flow > 0

\* total original capacity max(0, cap) of the added arcs that leave the node
\* set R
CutCapacity(R) ==
    SumSeq([k \in 1..Len(added) |->
               IF added[k].fr \in R /\ added[k].to \notin R
               THEN Max(0, added[k].cap) ELSE 0])

\* C16: when max_flow(SS, TT) has returned, TT is not reachable from SS over
\* arcs with residual capacity > eps, and the returned flow equals the total
\* original capacity of the arcs from residual_reachable_from(SS) to its
\* complement.
C16_MaxFlowMinCut ==
    (pc \in {"decide", "done"}) =>
        LET R == residual_reachable_from(g, SSof(base_nodes))
        IN /\ TTof(base_nodes) \notin R
           /\ flow = CutCapacity(R)

\* C16 case: max_flow has returned a positive flow and the source side of the
\* cut holds other nodes than SS, with two or more arcs leaving it
C16_Witness ==
    /\ pc = "decide"
    /\ flow > 0
    /\ LET R == residual_reachable_from(g, SSof(base_nodes))
       IN /\ Cardinality(R) >= 2
          /\ Cardinality({k \in 1..Len(added) :
                             /\ added[k].fr \in R
                             /\ added[k].to \notin R
                             /\ added[k].cap > 0}) >= 2

\* the arcs <<v, i>> whose residual capacity is smaller in G2 than in G
DecrementedArcs(G, G2) ==
    {a \in UNION {{<<v, i>> : i \in 0..(Len(G[v]) - 1)} : v \in DOMAIN G} :
        ArcAt(G2, a[1], a[2]).cap < ArcAt(G, a[1], a[2]).cap}

\* the arcs of D, each taken once, form a path from v to tt
RECURSIVE IsPath(_, _, _, _)
IsPath(G, D, v, tt) ==
    IF D = {} THEN v = tt
    ELSE LET A == {a \in D : a[1] = v}
         IN /\ v # tt
            /\ Cardinality(A) = 1
            /\ IsPath(G, D \ A, ArcAt(G, v, (CHOOSE a \in A : TRUE)[2]).to, tt)

\* C17: in the blocking-flow phase every arc whose capacity a probe decrements
\* had residual capacity > eps and level(to) = level(from) + 1 in the levels
\* of the current phase, and the decremented arcs form a path from the source
\* to the sink.
C17_PushOnAdmissiblePath ==
    [][pc = "dfs" =>
          LET D == DecrementedArcs(g, g')
          IN /\ \A a \in D :
                   LET e == ArcAt(g, a[1], a[2])
                   IN /\ e.cap > EPS
                      /\ level[e.to] = level[a[1]] + 1
             /\ (flow' # flow) <=> (D # {})
             /\ D # {} => IsPath(g, D, SSof(base_nodes), TTof(base_nodes))]_vars

\* C17 case: flow has been pushed along a path of four or more arcs
C17_Witness ==
    /\ pc = "dfs"
    /\ flow > 0
    /\ level[TTof(base_nodes)] >= 4

\* C18: within one blocking-flow phase no cursor decreases and an arc whose
\* probe returned no flow is not examined again by a later probe of the phase;
\* at the start of every new level phase every cursor is reset to zero.
C18_CursorSkipsDeadArcs ==
    /\ [](probe_log.again_dead = {})
    /\ [][(pc = "dfs" /\ pc' \in {"dfs", "bfs"}) =>
             \A v \in DOMAIN it : it'[v] >= it[v]]_vars
    /\ [][(pc = "bfs" /\ pc' = "dfs") =>
             \A v \in DOMAIN it' : it'[v] = 0]_vars

\* C19: in every "infeasible" result tight_edges has an entry for each
\* original edge whose transformed endpoints straddle the cut (u_final
\* reachable from SS, v_final not) and whose residual capacity is <= eps:
\* between any pair of nodes, as many entries as there are such edges.
C19_EveryTightEdgeListed ==
    Returned("infeasible") =>
        LET R == residual_reachable_from(g, SSof(base_nodes))
        IN \A i \in 1..Len(edge_map) :
              EdgeIsTight(g, R, edge_map[i]) =>
                 Cardinality({k \in 1..Len(result.tight_edges) :
                                 /\ result.tight_edges[k].from = edge_map[i].orig_u
                                 /\ result.tight_edges[k].to = edge_map[i].orig_v})
                    = Cardinality({j \in 1..Len(edge_map) :
                                      /\ EdgeIsTight(g, R, edge_map[j])
                                      /\ edge_map[j].orig_u = edge_map[i].orig_u
                                      /\ edge_map[j].orig_v = edge_map[i].orig_v})

\* the node v of the Problem, or one of its split nodes, is in R
NodeReached(R, v) ==
    \/ name2id(base_nodes, v) \in R
    \/ /\ v \in DOMAIN prob.node_caps
       /\ \/ name2id(base_nodes, InName(v)) \in R
          \/ name2id(base_nodes, OutName(v)) \in R

\* C20: in every "infeasible" result cut_reachable is sorted and free of
\* duplicates, every name in it is a node name of the Problem, and a node of
\* the Problem is listed exactly when its plain node or one of its in/out
\* split nodes is reachable from SS in the final residual graph; also for
\* names that themselves end in "__in" or "__out".
C20_CutReachableNames ==
    Returned("infeasible") =>
        LET R == residual_reachable_from(g, SSof(base_nodes))
            cut == result.cut_reachable
        IN /\ \A i \in 1..(Len(cut) - 1) : NameLess(cut[i], cut[i + 1])
           /\ Range(cut) \subseteq prob.nodes
           /\ \A v \in prob.nodes : (v \in Range(cut)) <=> NodeReached(R, v)

\* C21: the result does not depend on the order in which the input lists the
\* edges (labels omitted): the call on the permuted list ends with the same
\* status, the same flows list with the same flow values, and the same
\* infeasibility certificate (or the same error).
C21_EdgeOrderIndependent ==
    (run = 4 /\ Finished) => result = prev_result

\* total flow_used over the handles of the added arcs that enter node v /
\* that leave node v
UsedInto(v) ==
    SumSeq([k \in 1..Len(added) |->
               IF added[k].to = v
               THEN flow_used(g, added[k].handle[1], added[k].handle[2]) ELSE 0])

UsedOutOf(v) ==
    SumSeq([k \in 1..Len(added) |->
               IF added[k].fr = v
               THEN flow_used(g, added[k].handle[1], added[k].handle[2]) ELSE 0])

\* C22: after every augmentation of max_flow(SS, TT) the pushed amounts form
\* a valid flow: at every node other than SS and TT the total flow_used on the
\* arcs entering it equals the total on the arcs leaving it, and the running
\* flow total is the net flow leaving SS and the net flow entering TT.
C22_ValidFlowAfterEachPush ==
    (pc \in {"dfs", "bfs", "decide"} /\ phases >= 1) =>
        LET SS == SSof(base_nodes)
            TT == TTof(base_nodes)
        IN /\ \A v \in (DOMAIN g) \ {SS, TT} : UsedInto(v) = UsedOutOf(v)
           /\ flow = UsedOutOf(SS) - UsedInto(SS)
           /\ flow = UsedInto(TT) - UsedOutOf(TT)

\* C22 case: between two augmentations of one phase, with flow through a node
\* that is neither SS nor TT
C22_Witness ==
    /\ pc = "dfs"
    /\ flow >= 2
    /\ flow < required
    /\ \E v \in (DOMAIN g) \ {SSof(base_nodes), TTof(base_nodes)} :
          UsedInto(v) >= 2

====
